---- MODULE Spec2Model ----
(***************************************************************************)
(* Model of bot/main.py: a Telegram bot whose administrator uploads an     *)
(* .xlsx sheet of loan accounts; handle_file scans the rows, computes the  *)
(* payable amount of each, sends a WhatsApp reminder through the WAHA      *)
(* gateway, replies with a summary and posts a report to a log channel.    *)
(*                                                                         *)
(* Strings are sequences of one-character strings.  Amounts are floats,    *)
(* modelled as [nan, v] with v the value in hundredths (exact decimal      *)
(* arithmetic; binary rounding and infinities are not modelled).           *)
(***************************************************************************)
EXTENDS Integers, Sequences, FiniteSets, TLC

VARIABLES
    pc,          \* position of handle_file: "idle", "loop" (the for
                 \* statement), "body" (a row fetched), "done"
    user,        \* update.effective_user.id of the update being handled
    file,        \* the uploaded document: [readable, columns, nrows]
    downloaded,  \* file.download_to_drive ran for this update
    i,           \* number of rows of df fetched by the for statement
    row,         \* the row fetched, while its body runs
    sent_count,
    skip_count,
    log_lines,   \* log_lines after its header line
    out,         \* messages of this update, in order: replies and channel posts
    calls,       \* send_whatsapp calls of this update, in order
    gating       \* the eligibility variant the deployment is configured
                 \* for; no statement of the program reads it

vars == <<pc, user, file, downloaded, i, row, sent_count, skip_count,
          log_lines, out, calls, gating>>

\* ---------------------------------------------------------------- bounds
MaxRows == 2
MaxFill == 11

\* ------------------------------------------------------------- constants
ADMIN_ID == 123456789
OTHER_ID == ADMIN_ID + 1
Users == {ADMIN_ID, OTHER_ID}

\* ------------------------------------------------------------- strings
Digits == {"0", "1", "2", "3", "4", "5", "6", "7", "8", "9"}

DigitVal(c) ==
    CASE c = "0" -> 0 [] c = "1" -> 1 [] c = "2" -> 2 [] c = "3" -> 3
      [] c = "4" -> 4 [] c = "5" -> 5 [] c = "6" -> 6 [] c = "7" -> 7
      [] c = "8" -> 8 [] c = "9" -> 9

IsDigit(c) == c \in Digits
NotComma(c) == c # ","
Whitespace == {" ", "\t", "\n"}

RECURSIVE LStrip(_)
LStrip(s) ==
    IF s # <<>> /\ Head(s) \in Whitespace THEN LStrip(Tail(s)) ELSE s

RECURSIVE RStrip(_)
RStrip(s) ==
    IF s # <<>> /\ s[Len(s)] \in Whitespace
    THEN RStrip(SubSeq(s, 1, Len(s) - 1)) ELSE s

\* str.strip()
Strip(s) == RStrip(LStrip(s))

\* the last n characters, s[-n:]
LastN(s, n) == IF Len(s) <= n THEN s ELSE SubSeq(s, Len(s) - n + 1, Len(s))

RECURSIVE IntVal(_)
IntVal(s) ==
    IF s = <<>> THEN 0
    ELSE 10 * IntVal(SubSeq(s, 1, Len(s) - 1)) + DigitVal(s[Len(s)])

AllDigits(s) == \A k \in 1..Len(s) : s[k] \in Digits

\* ---------------------------------------------------------------- cells
\* A spreadsheet cell as pandas hands it to the code: na is pd.isna(x),
\* str is str(x).  An empty cell is NaN; a column that is absent makes
\* row.get(column) None.
NaNCell == [na |-> TRUE, str |-> <<"n", "a", "n">>]
NoneCell == [na |-> TRUE, str |-> <<"N", "o", "n", "e">>]
Text(s) == [na |-> FALSE, str |-> s]

\* --------------------------------------------------------------- floats
NaN == [nan |-> TRUE, v |-> 0]
Num(h) == [nan |-> FALSE, v |-> h]
FAdd(a, b) == IF a.nan \/ b.nan THEN NaN ELSE Num(a.v + b.v)
FSub(a, b) == IF a.nan \/ b.nan THEN NaN ELSE Num(a.v - b.v)
\* x <= 0 on floats: a comparison with NaN is False
FLeqZero(x) == ~x.nan /\ x.v <= 0

\* float(s) for the literals [sign] digits [. digits] and [sign] nan;
\* ok = FALSE is ValueError.  Fraction digits past the second are dropped.
Unsigned(s) == IF s # <<>> /\ Head(s) \in {"+", "-"} THEN Tail(s) ELSE s
Sign(s) == IF s # <<>> /\ Head(s) = "-" THEN -1 ELSE 1
DotAt(s) ==
    IF \E k \in 1..Len(s) : s[k] = "."
    THEN CHOOSE k \in 1..Len(s) : s[k] = "." /\ \A j \in 1..(k - 1) : s[j] # "."
    ELSE Len(s) + 1
IntPart(s) == SubSeq(s, 1, DotAt(s) - 1)
FracPart(s) == SubSeq(s, DotAt(s) + 1, Len(s))
Hundredths(f) ==
    IF Len(f) = 0 THEN 0
    ELSE IF Len(f) = 1 THEN 10 * DigitVal(f[1])
    ELSE 10 * DigitVal(f[1]) + DigitVal(f[2])
ParseFloat(s) ==
    LET u == Unsigned(s) IN
    IF u = <<"n", "a", "n">> THEN [ok |-> TRUE, val |-> NaN]
    ELSE IF /\ AllDigits(IntPart(u))
            /\ AllDigits(FracPart(u))
            /\ Len(IntPart(u)) + Len(FracPart(u)) > 0
         THEN [ok |-> TRUE,
               val |-> Num(Sign(s) * (100 * IntVal(IntPart(u))
                                      + Hundredths(FracPart(u))))]
         ELSE [ok |-> FALSE, val |-> Num(0)]

\* to_num: 0 for a missing cell, else float of the text without commas,
\* stripped; 0 when float raises
to_num(x) ==
    IF x.na THEN Num(0)
    ELSE LET s == Strip(SelectSeq(x.str, NotComma))
             p == ParseFloat(s)
         IN IF p.ok THEN p.val ELSE Num(0)

clean_mobile_any_lead(m) ==
    LET d == SelectSeq(m.str, IsDigit)
        s == IF Len(d) = 12 /\ SubSeq(d, 1, 2) = <<"9", "1">>
             THEN LastN(d, 10) ELSE d
    IN IF Len(s) = 10 THEN s ELSE <<>>

\* clean_mobile: the digits of str(m), a leading 91 of a 12-digit number
\* dropped; None unless 10 digits starting with 6, 7, 8 or 9
None == <<>>
clean_mobile(m) ==
    LET d == SelectSeq(m.str, IsDigit)
        s == IF Len(d) = 12 /\ SubSeq(d, 1, 2) = <<"9", "1">>
             THEN LastN(d, 10) ELSE d
    IN IF Len(s) = 10 /\ s[1] \in {"6", "7", "8", "9"} THEN s ELSE None

\* ------------------------------------------------------------- gateway
\* What the HTTP call of send_whatsapp meets: a JSON object without an
\* "error" key, a JSON object with one, an exception of requests.post or
\* response.json(), or a JSON body that is no container (null, a number).
GatewayOutcomes == {"ok", "gw_error", "exception", "null"}

\* send_whatsapp returns the decoded JSON, or {"error": str(e)} when the
\* call raised.  type is the Python type of the value returned.
send_whatsapp(gw) ==
    CASE gw = "ok" -> [type |-> "dict", error |-> ""]
      [] gw = "gw_error" -> [type |-> "dict", error |-> "gateway error"]
      [] gw = "exception" -> [type |-> "dict", error |-> "request exception"]
      [] OTHER -> [type |-> "NoneType", error |-> ""]

\* ------------------------------------------------------------ one row
Columns == {"mobile no", "over due", "edi amount", "advance"}

\* row.get(column): None when the sheet has no such column
Get(f, r, column) == IF column \in f.columns THEN r[column] ELSE NoneCell

Payable(od, edi_amt, adv_amt) == FSub(FAdd(edi_amt, od), adv_amt)

\* the skip test on the amount
NotPayable(payable) == FLeqZero(payable)

SentLine(n, mobile_num) ==
    [idx |-> n, ok |-> TRUE, mobile |-> mobile_num, text |-> "Sent"]
ErrorLine(n, mobile, reason) ==
    [idx |-> n, ok |-> FALSE, mobile |-> mobile, text |-> reason]

\* what one iteration adds to the counters, to log_lines and to the calls
\* of the sink.  Skipped: the two "skip_count += 1; continue" exits.
Skipped == [sent |-> 0, skip |-> 1, log |-> <<>>, calls |-> <<>>]

\* the branch of a response that holds an "error" key
FailedRetried(n, mobile_num, resp, call) ==
    [sent |-> 0, skip |-> 1, calls |-> call \o call,
     log |-> <<ErrorLine(n, mobile_num, resp.error)>>]
Failed(n, mobile_num, resp, call) ==
    [sent |-> 0, skip |-> 1, calls |-> call,
     log |-> <<ErrorLine(n, mobile_num, resp.error)>>]

\* the branch of a response without one
DeliveredUncounted(n, mobile_num, call) ==
    [sent |-> 0, skip |-> 0, calls |-> call, log |-> <<SentLine(n, mobile_num)>>]
Delivered(n, mobile_num, call) ==
    [sent |-> 1, skip |-> 0, calls |-> call, log |-> <<SentLine(n, mobile_num)>>]

\* the except clause of the row, e the exception's text
CaughtUncounted(n, raw, e, call) ==
    [sent |-> 0, skip |-> 0, calls |-> call, log |-> <<ErrorLine(n, raw.str, e)>>]
Caught(n, raw, e, call) ==
    [sent |-> 0, skip |-> 1, calls |-> call, log |-> <<ErrorLine(n, raw.str, e)>>]

\* "error" in resp raises TypeError when resp is no container
TypeErrorText == "argument of type 'NoneType' is not iterable"

\* The body of the row loop for row number n with cells r, the gateway
\* answering gw.
RowBody(f, n, r, gw) ==
    LET mobile_num == clean_mobile(Get(f, r, "mobile no"))
        od == to_num(Get(f, r, "over due"))
        edi_amt == to_num(Get(f, r, "edi amount"))
        adv_amt == to_num(Get(f, r, "advance"))
        payable == Payable(od, edi_amt, adv_amt)
        resp == send_whatsapp(gw)
        call == <<[idx |-> n, mobile |-> mobile_num, gw |-> gw]>>
    IN  IF mobile_num = None THEN Skipped
        ELSE IF NotPayable(payable) THEN Skipped
        ELSE IF resp.type # "dict"
        THEN Caught(n, Get(f, r, "mobile no"), TypeErrorText, call)
        ELSE IF resp.error # "" THEN Failed(n, mobile_num, resp, call)
        ELSE Delivered(n, mobile_num, call)

\* whether the body reaches the call of send_whatsapp
Reaches(f, r) == RowBody(f, 0, r, "ok").calls # <<>>

\* ------------------------------------------------------------ messages
Msg(to, kind) ==
    [to |-> to, kind |-> kind, sent |-> 0, skipped |-> 0, lines |-> <<>>]
NotAuthorized == Msg("operator", "not authorized")
Welcome == Msg("operator", "welcome")
Received == Msg("operator", "file received")
FileError == Msg("operator", "error processing file")
Summary(s, k) ==
    [to |-> "operator", kind |-> "summary", sent |-> s, skipped |-> k,
     lines |-> <<>>]
Report(lines) ==
    [to |-> "channel", kind |-> "report", sent |-> 0, skipped |-> 0,
     lines |-> lines]

\* -------------------------------------------------------------- inputs
NoFile == [readable |-> FALSE, columns |-> {}, nrows |-> 0]
NoRow == [c \in Columns |-> NoneCell]

\* sheets: unreadable, or readable with at most one column absent
ColumnSets == {Columns} \cup {Columns \ {c} : c \in Columns}
Files(columnSets) ==
    {NoFile} \cup
    {[readable |-> TRUE, columns |-> cs, nrows |-> n] :
        cs \in columnSets, n \in 0..MaxRows}

Mobiles ==
    {Text(<<"+", "9", "1", " ", "9", "8", "7", "6", "5", " ", "4", "3", "2", "1", "0">>),
     Text(<<"9", "1", "2", "3", "4", "5", "6", "7", "8", "9">>),
     Text(<<"5", "1", "2", "3", "4", "5", "6", "7", "8", "9">>),
     Text(<<"9", "9", "9", "9", "9", "9", "9", "9">>),
     NaNCell}
Amounts ==
    {NaNCell, Text(<<"a", "b", "c">>), Text(<<" ", "n", "a", "n">>),
     Text(<<"0">>), Text(<<"5", "0", "0">>),
     Text(<<"1", ",", "0", "0", "0", ".", "2", "5">>)}

Fill(n) == [k \in 1..n |-> "1"]
Prefixes == {<<>>, <<"0">>, <<"9", "1">>, <<"+", "9", "1", " ">>}
Leads == {"1", "5", "6", "9"}
Separators == {<<>>, <<"-">>}
RawMobiles ==
    {Text(p \o <<l>> \o s \o Fill(n)) :
        p \in Prefixes, l \in Leads, s \in Separators, n \in 6..MaxFill}

\* the inputs of a run: the cells a row may hold, the sheets, the gateway
Universe ==
    [mobiles |-> Mobiles, amounts |-> Amounts, columnSets |-> ColumnSets,
     gateway |-> GatewayOutcomes]
UniverseMobile ==
    [mobiles |-> RawMobiles \cup {NaNCell, Text(<<"9", "8", "7", "6", "5", "4", "3", "2", "1", "0", ".", "0">>)},
     amounts |-> {Text(<<"5", "0", "0">>)}, columnSets |-> {Columns},
     gateway |-> {"ok", "gw_error"}]

\* The two eligibility rules of the design: "A" skips a row whose overdue
\* amount is not positive and a row whose payable amount is not positive,
\* "B" only the latter.
GatingVariants == {"A", "B"}

\* ------------------------------------------------------------- actions
Init ==
    /\ pc = "idle"
    /\ user = ADMIN_ID
    /\ file = NoFile
    /\ downloaded = FALSE
    /\ i = 0
    /\ row = NoRow
    /\ sent_count = 0
    /\ skip_count = 0
    /\ log_lines = <<>>
    /\ out = <<>>
    /\ calls = <<>>
    /\ gating \in GatingVariants

\* a handler of the next update starts with fresh locals
Fresh ==
    /\ i' = 0
    /\ row' = NoRow
    /\ sent_count' = 0
    /\ skip_count' = 0
    /\ log_lines' = <<>>
    /\ calls' = <<>>

AuthorizedAnyone(u) == TRUE
\* the test of the sender in start and handle_file
Authorized(u) == u = ADMIN_ID

\* start: the /start command
Start(u) ==
    /\ pc \in {"idle", "done"}
    /\ user' = u
    /\ out' = IF Authorized(u) THEN <<Welcome>> ELSE <<NotAuthorized>>
    /\ pc' = "done"
    /\ file' = NoFile
    /\ downloaded' = FALSE
    /\ Fresh
    /\ UNCHANGED gating

\* handle_file, a sender who is not the administrator
HandleFileDenied(u) ==
    /\ pc \in {"idle", "done"}
    /\ ~Authorized(u)
    /\ user' = u
    /\ out' = <<NotAuthorized>>
    /\ pc' = "done"
    /\ file' = NoFile
    /\ downloaded' = FALSE
    /\ Fresh
    /\ UNCHANGED gating

\* handle_file up to the row loop: download, acknowledge, read_excel;
\* a sheet that cannot be read ends in the outer except clause
HandleFile(u, f) ==
    /\ pc \in {"idle", "done"}
    /\ Authorized(u)
    /\ user' = u
    /\ file' = f
    /\ downloaded' = TRUE
    /\ Fresh
    /\ UNCHANGED gating
    /\ IF f.readable
       THEN /\ out' = <<Received>>
            /\ pc' = "loop"
       ELSE /\ out' = <<Received, FileError>>
            /\ pc' = "done"

CellsOf(f, column, S) == IF column \in f.columns THEN S ELSE {NoneCell}

\* the rows a sheet f may hold
Rows(U, f) ==
    {[c \in Columns |->
        CASE c = "mobile no" -> m
          [] c = "over due" -> od
          [] c = "edi amount" -> edi
          [] OTHER -> adv] :
        m \in CellsOf(f, "mobile no", U.mobiles),
        od \in CellsOf(f, "over due", U.amounts),
        edi \in CellsOf(f, "edi amount", U.amounts),
        adv \in CellsOf(f, "advance", U.amounts)}

\* the answers the gateway may give for row r: none when the body never
\* reaches the call
Answers(gateway, f, r) == IF Reaches(f, r) THEN gateway ELSE {"unused"}

\* the for statement fetches the next row of df
NextRow(rows) ==
    /\ pc = "loop"
    /\ i < file.nrows
    /\ \E r \in rows : row' = r
    /\ i' = i + 1
    /\ pc' = "body"
    /\ UNCHANGED <<user, file, downloaded, sent_count, skip_count,
                   log_lines, out, calls, gating>>

\* the body of the loop on the row fetched, the gateway answering gw
ProcessRow(gateway) ==
    /\ pc = "body"
    /\ \E gw \in Answers(gateway, file, row) :
        LET b == RowBody(file, i, row, gw) IN
        /\ sent_count' = sent_count + b.sent
        /\ skip_count' = skip_count + b.skip
        /\ log_lines' = log_lines \o b.log
        /\ calls' = calls \o b.calls
    /\ row' = NoRow
    /\ pc' = "loop"
    /\ UNCHANGED <<user, file, downloaded, i, out, gating>>

\* after the loop: the summary to the operator, then the report to the
\* log channel; bot.send_message raising ends in the outer except clause
Finish(delivered) ==
    /\ pc = "loop"
    /\ i = file.nrows
    /\ out' = out \o <<Summary(sent_count, skip_count)>>
                  \o (IF delivered THEN <<Report(log_lines)>> ELSE <<FileError>>)
    /\ pc' = "done"
    /\ UNCHANGED <<user, file, downloaded, i, row, sent_count, skip_count,
                   log_lines, calls, gating>>

NextOver(U) ==
    \/ \E u \in Users : Start(u)
    \/ \E u \in Users : HandleFileDenied(u)
    \/ \E u \in Users, f \in Files(U.columnSets) : HandleFile(u, f)
    \/ NextRow(Rows(U, file))
    \/ ProcessRow(U.gateway)
    \/ \E delivered \in BOOLEAN : Finish(delivered)

Next == NextOver(Universe)
NextMobile == NextOver(UniverseMobile)

Spec == Init /\ [][Next]_vars
SpecMobile == Init /\ [][NextMobile]_vars

\* ------------------------------------------------------------ notions
Last(q) == q[Len(q)]
\* x > 0 on floats: False for NaN
FGtZero(x) == ~x.nan /\ x.v > 0
Count(q, P(_)) == Cardinality({k \in DOMAIN q : P(q[k])})
IsSummary(m) == m.kind = "summary"
IsFileError(m) == m.kind = "error processing file"
IsReport(m) == m.to = "channel"
\* rows whose body has run
Processed == IF pc = "body" THEN i - 1 ELSE i
\* handle_file of the administrator has returned after the row loop
Completed == pc = "done" /\ downloaded /\ file.readable
\* the gateway answers that make the body raise, and report an error
Raising == {"null"}
Failing == {"gw_error", "exception"}
MobileOf(r) == Get(file, r, "mobile no")
PayableOf(r) ==
    Payable(to_num(Get(file, r, "over due")), to_num(Get(file, r, "edi amount")),
            to_num(Get(file, r, "advance")))
\* the step of ProcessRow called the sink
Called == pc = "body" /\ calls' # calls

\* ------------------------------------------------------------- claims

\* C1: a row whose body raises (the gateway's answer is no container, so
\* the test "error" in resp raises TypeError) adds exactly one to
\* skip_count and nothing to sent_count, appends one error line with the
\* exception text for that row, and the loop goes on: a batch that has
\* returned has fetched every row and replied with the summary.
C1_RaisingStep ==
    (Called /\ Last(calls').gw \in Raising) =>
        /\ skip_count' = skip_count + 1
        /\ sent_count' = sent_count
        /\ log_lines' = Append(log_lines,
                               ErrorLine(i, MobileOf(row).str, TypeErrorText))
        /\ pc' = "loop"
        /\ i' = i
C1_RunsToTheEnd ==
    Completed =>
        /\ i = file.nrows
        /\ Count(out, IsSummary) = 1
        /\ \A k \in DOMAIN calls : calls[k].gw \in Raising =>
              \E j \in DOMAIN log_lines :
                  log_lines[j].idx = calls[k].idx /\ ~log_lines[j].ok
\* C1: fault isolation of the row loop, as stated above: every raising
\* step is one skip with one error line, and every batch runs to its end.
C1_FaultIsolation == [][C1_RaisingStep]_vars /\ []C1_RunsToTheEnd
C1_Witness ==
    /\ Completed
    /\ \E j, k \in DOMAIN calls :
          j < k /\ calls[j].gw \in Raising /\ calls[k].gw = "ok"
    /\ sent_count >= 1

\* C3: each processed row is counted in exactly one counter, so the
\* counters add up to the rows processed so far and, at the end, to the
\* rows of the sheet; sent_count is the number of calls of the sink that
\* returned a result without an error.
C3_CounterAccounting ==
    /\ sent_count + skip_count = Processed
    /\ Completed => sent_count + skip_count = file.nrows
    /\ sent_count = Cardinality({k \in DOMAIN calls : calls[k].gw = "ok"})
C3_Witness ==
    /\ Completed
    /\ sent_count >= 1
    /\ skip_count >= 1
    /\ \E k \in DOMAIN calls : calls[k].gw \in Failing \cup Raising

\* C6: the sink is called at most once for a row; a call that reports an
\* error counts the row as skipped, not sent, logs one error line with
\* the sink's error text, and the loop goes on with the next row.
C6_FailingStep ==
    Called =>
        /\ Len(calls') = Len(calls) + 1
        /\ Last(calls').gw \in Failing =>
            /\ skip_count' = skip_count + 1
            /\ sent_count' = sent_count
            /\ log_lines' = Append(log_lines,
                   ErrorLine(i, clean_mobile(MobileOf(row)),
                             send_whatsapp(Last(calls').gw).error))
            /\ pc' = "loop"
C6_AtMostOnce ==
    /\ \A j, k \in DOMAIN calls : j < k => calls[j].idx < calls[k].idx
    /\ \A k \in DOMAIN calls : calls[k].idx \in 1..i
\* C6: no retry, as stated above: every failing call is one skip with one
\* error line, and no row is called twice.
C6_NoRetry == [][C6_FailingStep]_vars /\ []C6_AtMostOnce
C6_Witness ==
    /\ Completed
    /\ Len(calls) >= 2
    /\ calls[1].gw \in Failing
    /\ calls[2].idx > calls[1].idx

\* C9: an update of a sender other than the administrator only gets the
\* not-authorized reply: nothing is downloaded, no row is fetched, the
\* sink is not called, the counters stay 0, nothing goes to the channel;
\* so every call of the sink is made for the administrator.
C9_AdminOnly ==
    /\ user # ADMIN_ID =>
        /\ out = <<NotAuthorized>>
        /\ ~downloaded
        /\ pc = "done"
        /\ i = 0 /\ calls = <<>> /\ log_lines = <<>>
        /\ sent_count = 0 /\ skip_count = 0
    /\ calls # <<>> => user = ADMIN_ID
    /\ Count(out, IsReport) > 0 => user = ADMIN_ID
C9_Witness == user # ADMIN_ID /\ out = <<NotAuthorized>> /\ pc = "done"

\* C5: clean_mobile keeps the digits of the input, drops a leading 91
\* from a 12-digit number, and returns the result only if it has 10
\* digits and starts with 6, 7, 8 or 9, None otherwise.  So fewer than 10
\* digits give None, a 10-digit number starting with 91 is kept as it is,
\* and every mobile handed to the sink is 10 digits starting with 6..9.
DigitsOf(s) == SelectSeq(s, IsDigit)
Stripped91(d) ==
    IF Len(d) = 12 /\ d[1] = "9" /\ d[2] = "1" THEN SubSeq(d, 3, 12) ELSE d
IndianMobile(s) ==
    Len(s) = 10 /\ AllDigits(s) /\ s[1] \in {"6", "7", "8", "9"}
C5_CleanMobile ==
    /\ pc = "body" =>
        LET d == DigitsOf(MobileOf(row).str)
            e == Stripped91(d)
            got == clean_mobile(MobileOf(row))
        IN  /\ got = IF IndianMobile(e) THEN e ELSE None
            /\ Len(d) < 10 => got = None
            /\ (Len(d) = 10 /\ SubSeq(d, 1, 2) = <<"9", "1">>) => got = d
    /\ \A k \in DOMAIN calls : IndianMobile(calls[k].mobile)
    /\ \A k \in DOMAIN log_lines :
          log_lines[k].ok => IndianMobile(log_lines[k].mobile)
C5_Witness ==
    /\ pc = "body"
    /\ calls # <<>>
    /\ LET d == DigitsOf(MobileOf(row).str) IN
          /\ Len(d) = 10
          /\ SubSeq(d, 1, 2) = <<"9", "1">>
          /\ clean_mobile(MobileOf(row)) = d
    /\ \E k \in DOMAIN calls :
          calls[k].mobile = <<"6", "1", "1", "1", "1", "1", "1", "1", "1", "1">>

\* C2: when the loop is over, log_lines holds exactly one line for every
\* row of the sheet, in the order of the rows.
C2_OneLinePerRow ==
    Completed =>
        /\ Len(log_lines) = file.nrows
        /\ \A k \in DOMAIN log_lines : log_lines[k].idx = k

\* C4: the sink is called for a row if and only if clean_mobile gives a
\* number and payable = edi + overdue - advance is greater than 0.
C4_Decision ==
    pc = "body" =>
        (calls' # calls <=>
            /\ clean_mobile(MobileOf(row)) # None
            /\ FGtZero(PayableOf(row)))
\* C4: every step of the loop body decides as stated above.
C4_SendIffPayable == [][C4_Decision]_vars

\* C7: a sheet that cannot be read, or that lacks the column "mobile no",
\* is reported once as a file error and the batch is aborted: no row is
\* fetched, the sink is not called and no summary is sent.
C7_FileFailuresFatal ==
    (downloaded /\ (~file.readable \/ "mobile no" \notin file.columns)) =>
        /\ i = 0
        /\ calls = <<>>
        /\ Count(out, IsSummary) = 0
        /\ pc = "done" => Count(out, IsFileError) = 1

\* C8: a deployment configured for variant A never sends for a row whose
\* overdue amount is not positive, whatever its payable amount.
C8_Gate ==
    (gating = "A" /\ pc = "body"
        /\ FLeqZero(to_num(Get(file, row, "over due")))) => calls' = calls
\* C8: every step of the loop body under variant A keeps the overdue gate.
C8_VariantAOverdueGate == [][C8_Gate]_vars

\* C10: a batch of the administrator ends with exactly one terminal
\* report to the operator, the summary or one file error, never both;
\* the summary comes after the last row and the report to the channel
\* after the summary.
C10_OneTerminalReport ==
    /\ (pc = "done" /\ downloaded) =>
          Count(out, IsSummary) + Count(out, IsFileError) = 1
    /\ \A k \in DOMAIN out : IsSummary(out[k]) =>
          /\ i = file.nrows
          /\ out[k].sent + out[k].skipped = file.nrows
    /\ \A k \in DOMAIN out : IsReport(out[k]) => k > 1 /\ IsSummary(out[k - 1])

====
